---------------------------- MODULE Spec2Model ----------------------------
(***************************************************************************)
(* Admission and dispatch pipeline of the paddler balancer.                *)
(*                                                                         *)
(*   src/src/balancer/upstream_peer.rs   the peer record (UpstreamPeer)    *)
(*   src/src/balancer/proxy_service.rs   the proxy callbacks (ProxyService)*)
(*                                                                         *)
(* The peer pool (upstream_peer_pool.rs) and the status update record are  *)
(* not among the source files; the pool operations are modelled from       *)
(* sections 4.1, 4.2 and 4.6 of the specification and call the peer        *)
(* methods of upstream_peer.rs.                                            *)
(*                                                                         *)
(* Modelling conventions                                                   *)
(*   Option<T>           a sequence of length 0 (None) or 1 (Some)         *)
(*   SystemTime::now()   a logical clock `now`; every call reads a fresh,  *)
(*                       strictly larger value                             *)
(*   OwnedSemaphorePermit a number of permits; merge adds, split(n) takes  *)
(*                       n out when the bundle holds at least n and        *)
(*                       yields nothing otherwise; dropping a permit adds  *)
(*                       its count to the semaphore's free permits         *)
(*   a Rust panic        the step it occurs in is abandoned where it is    *)
(*                       and the flag `panicked` is raised                 *)
(* Every pool operation is one atomic step (the pool lock); a proxy        *)
(* callback that calls several pool operations is a sequence of steps,     *)
(* and pc records the position of each request in it.                      *)
(***************************************************************************)
EXTENDS Integers, Sequences, FiniteSets, TLC

\* ------------------------------------------------------------------ bounds
\* largest idle + processing a status update reports
MaxSlots == 1
\* largest idle + processing of a worker of the fleet the ordering is checked on
MaxFleetSlots == 2
\* the clock stops the model when it reaches this value
MaxClock == 3
\* upper bound on the attempts of one request (the framework's retry count)
MaxTries == 2

Agents == {"a1", "a2"}
Requests == {"r1", "r2"}
\* three worker identities for the specification of the ordering
OrdAgents == {"a1", "a2", "a3"}

None == <<>>
Some(x) == <<x>>
IsSome(o) == Len(o) = 1
IsNone(o) == Len(o) = 0
Unwrap(o) == o[1]

RECURSIVE SumOver(_, _)
SumOver(S, f) ==
    IF S = {} THEN 0
    ELSE LET x == CHOOSE y \in S : TRUE IN f[x] + SumOver(S \ {x}, f)

Min(a, b) == IF a < b THEN a ELSE b


\* ------------------------------------------------- tokio's OwnedSemaphorePermit
\* OwnedSemaphorePermit::merge: the bundle takes the other permit's count
merge(bundle, permit) == bundle + permit

\* a plausible slip: n permits are taken whatever the bundle holds
split_unchecked(bundle, n) == [rest |-> bundle - n, taken |-> Some(n)]

\* OwnedSemaphorePermit::split(n): Some(n) taken out of the bundle when it holds
\* at least n permits, None (and the bundle untouched) otherwise
split(bundle, n) ==
    IF n <= bundle THEN [rest |-> bundle - n, taken |-> Some(n)]
    ELSE [rest |-> bundle, taken |-> None]

\* permits a dropped Option<OwnedSemaphorePermit> gives back to the semaphore
dropped(opt) == IF IsSome(opt) THEN Unwrap(opt) ELSE 0

\* ------------------------------------------------------------ status updates
\* StatusUpdate as read by upstream_peer.rs (agent_name and
\* is_slots_endpoint_enabled are stored and never read by the pipeline)
StatusUpdate(Err, Adr, Auth, Max) ==
    { su \in [error : Err,
              external_llamacpp_addr : Adr,
              is_authorized : Auth,
              idle_slots_count : 0..Max,
              processing_slots_count : 0..Max] :
        su.idle_slots_count + su.processing_slots_count <= Max }

\* ------------------------------------------------------------- UpstreamPeer
\* UpstreamPeer::new
UpstreamPeer_new(agent_id, error, addr, is_authorized, slots_idle, slots_processing, t) ==
    [agent_id |-> agent_id,
     error |-> error,
     external_llamacpp_addr |-> addr,
     is_authorized |-> is_authorized,
     last_update |-> t,
     quarantined_until |-> None,
     slots_idle |-> slots_idle,
     slots_processing |-> slots_processing,
     slots_permissions |-> None]

\* UpstreamPeer::new_from_status_update
new_from_status_update(agent_id, su, t) ==
    UpstreamPeer_new(agent_id, su.error, su.external_llamacpp_addr,
                     su.is_authorized, su.idle_slots_count,
                     su.processing_slots_count, t)

\* UpstreamPeer::info
info(self) ==
    [agent_id |-> self.agent_id,
     external_llamacpp_addr |-> self.external_llamacpp_addr,
     last_update |-> self.last_update]

\* a plausible slip: the quarantine is not looked at
is_usable_no_quarantine(self) ==
    /\ self.slots_idle > 0
    /\ IsNone(self.error)
    /\ self.is_authorized = Some(TRUE)

\* UpstreamPeer::is_usable
is_usable(self) ==
    /\ self.slots_idle > 0
    /\ IsNone(self.quarantined_until)
    /\ IsNone(self.error)
    /\ self.is_authorized = Some(TRUE)

\* UpstreamPeer::release_slot
UpstreamPeer_release_slot(self, t) ==
    [self EXCEPT !.last_update = t,
                 !.slots_idle = @ + 1,
                 !.slots_processing = @ - 1]

\* UpstreamPeer::release_permits: the custody is unwrapped (a panic when it is
\* None) and n permits are split off; the split-off permit is dropped at once
release_permits(self, n) ==
    IF IsNone(self.slots_permissions)
    THEN [peer |-> self, released |-> 0, panicked |-> TRUE]
    ELSE LET s == split(Unwrap(self.slots_permissions), n)
         IN [peer |-> [self EXCEPT !.slots_permissions = Some(s.rest)],
             released |-> dropped(s.taken),
             panicked |-> FALSE]

\* UpstreamPeer::update_status
update_status(self, su, t) ==
    LET head == [self EXCEPT !.error = su.error,
                             !.external_llamacpp_addr = su.external_llamacpp_addr,
                             !.is_authorized = su.is_authorized,
                             !.last_update = t,
                             !.quarantined_until = None]
        rel == IF su.processing_slots_count < head.slots_processing
               THEN release_permits(head,
                        head.slots_processing - su.processing_slots_count)
               ELSE [peer |-> head, released |-> 0, panicked |-> FALSE]
    IN IF rel.panicked
       THEN rel
       ELSE [rel EXCEPT !.peer =
                [rel.peer EXCEPT !.slots_idle = su.idle_slots_count,
                                 !.slots_processing = su.processing_slots_count]]

\* UpstreamPeer::take_slot
UpstreamPeer_take_slot(self, t) ==
    [self EXCEPT !.last_update = t,
                 !.slots_idle = @ - 1,
                 !.slots_processing = @ + 1]

\* UpstreamPeer::store_permit
store_permit(self, permit) ==
    IF IsSome(self.slots_permissions)
    THEN [self EXCEPT !.slots_permissions =
                          Some(merge(Unwrap(self.slots_permissions), permit))]
    ELSE [self EXCEPT !.slots_permissions = Some(permit)]

\* UpstreamPeer::slots_count
slots_count(self) == self.slots_idle + self.slots_processing

\* Ordering of bool, usize and SocketAddr values: "Less", "Equal" or "Greater"
cmp_int(a, b) == IF a < b THEN "Less" ELSE IF a = b THEN "Equal" ELSE "Greater"
cmp_bool(a, b) == cmp_int(IF a THEN 1 ELSE 0, IF b THEN 1 ELSE 0)
\* Ordering::then_with
then_with(first, second) == IF first = "Equal" THEN second ELSE first

\* a plausible slip: idle slots compared in ascending order
cmp_idle_ascending(self, other) ==
    then_with(cmp_bool(is_usable(other), is_usable(self)),
    then_with(cmp_int(self.slots_idle, other.slots_idle),
    then_with(cmp_int(self.slots_processing, other.slots_processing),
              cmp_int(self.external_llamacpp_addr, other.external_llamacpp_addr))))

\* impl Ord for UpstreamPeer: cmp
cmp(self, other) ==
    then_with(cmp_bool(is_usable(other), is_usable(self)),
    then_with(cmp_int(other.slots_idle, self.slots_idle),
    then_with(cmp_int(self.slots_processing, other.slots_processing),
              cmp_int(self.external_llamacpp_addr, other.external_llamacpp_addr))))

\* impl PartialEq for UpstreamPeer: eq
eq(self, other) == self.agent_id = other.agent_id


\* ------------------------------------------------------------------- state
VARIABLES
    agents,                 \* UpstreamPeerPool: agent_id -> UpstreamPeer
    upstream_slots_permits, \* the admission semaphore's free permits
    now,                    \* the last value SystemTime::now() returned
    slots_endpoint_enable,  \* ProxyService::slots_endpoint_enable
    ctx,                    \* per request: LlamaCppContext
    pc,                     \* per request: its position in the callbacks
    permit,                 \* per request: the permit local to upstream_peer
    tries,                  \* per request: attempts the framework has made
    outcome,                \* per request: what its last callback returned
    upd                     \* what the last status update did to the custody

vars == <<agents, upstream_slots_permits, now, slots_endpoint_enable, ctx, pc,
          permit, tries, outcome, upd>>

poolVars == <<agents, upstream_slots_permits, now, upd>>
reqVars == <<ctx, pc, permit, tries, outcome>>

\* ------------------------------------------------------------ the peer pool
\* permits held in the custody of the peers of ps
custody(self) == dropped(self.slots_permissions)
permits_in_custody(ps) == SumOver(DOMAIN ps, [a \in DOMAIN ps |-> custody(ps[a])])
\* permits held by requests between acquire_owned and store_permit
permits_in_hand(pm) == SumOver(DOMAIN pm, [r \in DOMAIN pm |-> dropped(pm[r])])

\* section 4.6: the sum of the slots of the authorized peers
total_slots(ps) ==
    SumOver({a \in DOMAIN ps : ps[a].is_authorized = Some(TRUE)},
            [a \in DOMAIN ps |-> slots_count(ps[a])])

\* a reconciliation that measures the deficit against the free permits alone
restore_integrity_free_deficit(ps, available, outstanding) ==
    LET target == total_slots(ps)
        total == available + outstanding
    IN IF total > target THEN available - Min(available, total - target)
       ELSE available + (target - available)

\* UpstreamPeerPool::restore_integrity (section 4.6): the free permits after
\* the reconciliation; only free permits can be drained
restore_integrity(ps, available, outstanding) ==
    LET target == total_slots(ps)
        total == available + outstanding
    IN IF total > target THEN available - Min(available, total - target)
       ELSE available + (target - total)

\* UpstreamPeerPool::use_best_peer (sections 4.1, 4.5): the descriptors it can
\* return; peers that compare Equal may come first in either order
use_best_peer(ps) ==
    LET top == {a \in DOMAIN ps :
                   \A b \in DOMAIN ps : cmp(ps[a], ps[b]) # "Greater"}
    IN IF top = {} THEN {None}
       ELSE {IF is_usable(ps[a]) THEN Some(info(ps[a])) ELSE None : a \in top}

\* UpstreamPeerPool::take_slot (section 4.1)
pool_take_slot(ps, agent_id, t) ==
    IF agent_id \notin DOMAIN ps \/ ps[agent_id].slots_idle = 0
    THEN [ok |-> FALSE, agents |-> ps]
    ELSE [ok |-> TRUE,
          agents |-> [ps EXCEPT ![agent_id] = UpstreamPeer_take_slot(@, t)]]

\* UpstreamPeerPool::release_slot (section 4.1)
pool_release_slot(ps, agent_id, expected_last_update, t) ==
    IF agent_id \notin DOMAIN ps THEN [ok |-> FALSE, agents |-> ps]
    ELSE IF ps[agent_id].last_update # expected_last_update
    THEN [ok |-> TRUE, agents |-> ps]
    ELSE IF ps[agent_id].slots_processing = 0
    THEN [ok |-> FALSE, agents |-> ps]
    ELSE [ok |-> TRUE,
          agents |-> [ps EXCEPT ![agent_id] = UpstreamPeer_release_slot(@, t)]]

\* UpstreamPeerPool::release_one_permit (section 4.1): one permit is split out
\* of the custody with UpstreamPeer::release_permits and dropped
pool_release_one_permit(ps, agent_id) ==
    IF agent_id \notin DOMAIN ps
    THEN [ok |-> FALSE, agents |-> ps, released |-> 0, panicked |-> FALSE]
    ELSE LET rel == release_permits(ps[agent_id], 1)
         IN [ok |-> ~rel.panicked,
             agents |-> [ps EXCEPT ![agent_id] = rel.peer],
             released |-> rel.released,
             panicked |-> rel.panicked]

\* UpstreamPeerPool::store_permit (section 4.1): false, and the permit dropped,
\* when the peer is gone
pool_store_permit(ps, agent_id, p) ==
    IF agent_id \notin DOMAIN ps
    THEN [stored |-> FALSE, agents |-> ps, released |-> p]
    ELSE [stored |-> TRUE,
          agents |-> [ps EXCEPT ![agent_id] = store_permit(@, p)],
          released |-> 0]

\* UpstreamPeerPool::quarantine_peer (section 4.1); the deadline now + delta is
\* never read back (is_usable asks only whether one is set)
pool_quarantine_peer(ps, agent_id) ==
    IF agent_id \in DOMAIN ps /\ IsNone(ps[agent_id].quarantined_until)
    THEN [quarantined |-> TRUE,
          agents |-> [ps EXCEPT ![agent_id].quarantined_until = Some("deadline")]]
    ELSE [quarantined |-> FALSE, agents |-> ps]

\* UpstreamPeerPool::apply_status_update (section 4.1) up to its call of
\* restore_integrity: insert, or overwrite with UpstreamPeer::update_status
register_status_update(ps, agent_id, su, t) ==
    IF agent_id \in DOMAIN ps
    THEN LET u == update_status(ps[agent_id], su, t)
         IN [agents |-> [ps EXCEPT ![agent_id] = u.peer],
             lowered |-> IF su.processing_slots_count < ps[agent_id].slots_processing
                         THEN ps[agent_id].slots_processing
                                  - su.processing_slots_count
                         ELSE 0,
             released |-> u.released,
             panicked |-> u.panicked]
    ELSE [agents |-> [a \in DOMAIN ps \cup {agent_id} |->
                         IF a = agent_id
                         THEN new_from_status_update(agent_id, su, t)
                         ELSE ps[a]],
          lowered |-> 0, released |-> 0, panicked |-> FALSE]


\* ------------------------------------------------------------- construction
\* ProxyHttp::new_ctx
new_ctx == [selected_peer |-> None, slot_taken |-> FALSE, uses_slots |-> FALSE]

NoUpdate == [lowered |-> 0, released |-> 0, panicked |-> FALSE]

\* the request paths the classification tells apart
Paths == {"/slots", "/chat/completions", "/completion", "/v1/chat/completions",
          "/health"}

\* telemetry the workers report: every worker keeps its own address
AddrOf(a) == IF a = "a1" THEN 1 ELSE 2
Updates(a) ==
    StatusUpdate({None}, {AddrOf(a)}, {Some(TRUE), Some(FALSE)}, MaxSlots)

InitRequests ==
    /\ ctx = [r \in Requests |-> new_ctx]
    /\ pc = [r \in Requests |-> "new"]
    /\ permit = [r \in Requests |-> None]
    /\ tries = [r \in Requests |-> 0]
    /\ outcome = [r \in Requests |-> "none"]

\* an empty pool, a semaphore without permits, no request under way
Init ==
    /\ agents = [a \in {} |-> 0]
    /\ upstream_slots_permits = 0
    /\ now = 0
    /\ slots_endpoint_enable \in BOOLEAN
    /\ upd = NoUpdate
    /\ InitRequests

\* permits outside the semaphore, given the pool ps
outstanding(ps) == permits_in_custody(ps) + permits_in_hand(permit)

\* ------------------------------------------------------------ status updates
\* UpstreamPeerPool::apply_status_update: insert or overwrite, give the
\* released permits back, then restore_integrity. A panic in update_status
\* leaves the peer as written so far and skips the rest.
apply_status_update(agent_id, su) ==
    /\ now < MaxClock
    /\ LET reg == register_status_update(agents, agent_id, su, now + 1)
       IN /\ agents' = reg.agents
          /\ now' = now + 1
          /\ upd' = [lowered |-> reg.lowered, released |-> reg.released,
                     panicked |-> reg.panicked]
          /\ upstream_slots_permits' =
                IF reg.panicked THEN upstream_slots_permits
                ELSE restore_integrity(reg.agents,
                                       upstream_slots_permits + reg.released,
                                       outstanding(reg.agents))
    /\ UNCHANGED <<slots_endpoint_enable, reqVars>>

\* ----------------------------------------------------------- proxy callbacks
\* ProxyService::request_filter
request_filter(r, path) ==
    /\ pc[r] = "new"
    /\ IF path = "/slots" /\ ~slots_endpoint_enable
       THEN /\ outcome' = [outcome EXCEPT ![r] = "Custom"]
            /\ pc' = [pc EXCEPT ![r] = "done"]
            /\ UNCHANGED <<ctx, tries>>
       ELSE /\ ctx' = [ctx EXCEPT ![r].uses_slots =
                          path \in {"/chat/completions", "/completion",
                                    "/v1/chat/completions"}]
            /\ outcome' = [outcome EXCEPT ![r] = "Ok"]
            /\ pc' = [pc EXCEPT ![r] = "upstream_peer"]
            /\ tries' = [tries EXCEPT ![r] = 1]
    /\ UNCHANGED <<poolVars, slots_endpoint_enable, permit>>

\* ProxyService::upstream_peer, lines 235-243: no peer selected yet, a permit
\* is awaited and taken from the semaphore
upstream_peer_acquire(r) ==
    /\ pc[r] = "upstream_peer"
    /\ IsNone(ctx[r].selected_peer)
    /\ upstream_slots_permits > 0
    /\ upstream_slots_permits' = upstream_slots_permits - 1
    /\ permit' = [permit EXCEPT ![r] = Some(1)]
    /\ pc' = [pc EXCEPT ![r] = "use_best_peer"]
    /\ UNCHANGED <<agents, now, upd, slots_endpoint_enable, ctx, tries, outcome>>

\* ProxyService::upstream_peer, lines 245-296: the best peer is asked for; with
\* none the callback returns an error and its permit is dropped, otherwise the
\* permit moves into the custody of the selected peer
upstream_peer_select(r) ==
    /\ pc[r] = "use_best_peer"
    /\ \E best \in use_best_peer(agents) :
          /\ ctx' = [ctx EXCEPT ![r].selected_peer = best]
          /\ IF IsNone(best)
             THEN /\ upstream_slots_permits' =
                        upstream_slots_permits + dropped(permit[r])
                  /\ outcome' = [outcome EXCEPT ![r] = "InternalError"]
                  /\ pc' = [pc EXCEPT ![r] = "done"]
                  /\ UNCHANGED agents
             ELSE LET st == pool_store_permit(agents, Unwrap(best).agent_id,
                                              Unwrap(permit[r]))
                  IN /\ agents' = st.agents
                     /\ upstream_slots_permits' =
                            upstream_slots_permits + st.released
                     /\ outcome' = [outcome EXCEPT ![r] =
                                       IF st.stored THEN "Ok" ELSE "InternalError"]
                     /\ pc' = [pc EXCEPT ![r] =
                                  IF st.stored THEN "connect" ELSE "done"]
    /\ permit' = [permit EXCEPT ![r] = None]
    /\ UNCHANGED <<now, upd, slots_endpoint_enable, tries>>

\* ProxyService::upstream_peer, lines 235 and 279-296: a retry that still has its
\* selected peer goes to it again without a new permit
upstream_peer_selected(r) ==
    /\ pc[r] = "upstream_peer"
    /\ IsSome(ctx[r].selected_peer)
    /\ outcome' = [outcome EXCEPT ![r] = "Ok"]
    /\ pc' = [pc EXCEPT ![r] = "connect"]
    /\ UNCHANGED <<poolVars, slots_endpoint_enable, ctx, permit, tries>>

\* a plausible slip: ctx.slot_taken is set before the pool has answered
ProxyService_take_slot_eager(ps, free, c, t) ==
    IF IsSome(c.selected_peer)
    THEN LET res == pool_take_slot(ps, Unwrap(c.selected_peer).agent_id, t)
         IN IF res.ok
            THEN [ok |-> TRUE, agents |-> res.agents,
                  free |-> restore_integrity(res.agents, free,
                                             outstanding(res.agents)),
                  ctx |-> [c EXCEPT !.slot_taken = TRUE]]
            ELSE [ok |-> FALSE, agents |-> res.agents, free |-> free,
                  ctx |-> [c EXCEPT !.slot_taken = TRUE]]
    ELSE [ok |-> TRUE, agents |-> ps, free |-> free, ctx |-> c]

\* ProxyService::take_slot: the pool's take_slot, and after its success
\* restore_integrity and ctx.slot_taken = true
ProxyService_take_slot(ps, free, c, t) ==
    IF IsSome(c.selected_peer)
    THEN LET res == pool_take_slot(ps, Unwrap(c.selected_peer).agent_id, t)
         IN IF res.ok
            THEN [ok |-> TRUE, agents |-> res.agents,
                  free |-> restore_integrity(res.agents, free,
                                             outstanding(res.agents)),
                  ctx |-> [c EXCEPT !.slot_taken = TRUE]]
            ELSE [ok |-> FALSE, agents |-> res.agents, free |-> free, ctx |-> c]
    ELSE [ok |-> TRUE, agents |-> ps, free |-> free, ctx |-> c]

\* a plausible slip: the release carries the last_update the peer has now
\* instead of the one kept in ctx.selected_peer
ProxyService_release_slot_current(ps, free, c, t) ==
    IF IsSome(c.selected_peer) /\ Unwrap(c.selected_peer).agent_id \in DOMAIN ps
    THEN LET id == Unwrap(c.selected_peer).agent_id
             res == pool_release_slot(ps, id, ps[id].last_update, t)
         IN IF res.ok
            THEN [ok |-> TRUE, agents |-> res.agents,
                  free |-> restore_integrity(res.agents, free,
                                             outstanding(res.agents)),
                  ctx |-> [c EXCEPT !.slot_taken = FALSE]]
            ELSE [ok |-> FALSE, agents |-> res.agents, free |-> free, ctx |-> c]
    ELSE [ok |-> TRUE, agents |-> ps, free |-> free, ctx |-> c]

\* ProxyService::release_slot: the pool's release_slot with the last_update kept
\* in ctx.selected_peer, and after its success restore_integrity and
\* ctx.slot_taken = false
ProxyService_release_slot(ps, free, c, t) ==
    IF IsSome(c.selected_peer)
    THEN LET res == pool_release_slot(ps, Unwrap(c.selected_peer).agent_id,
                                      Unwrap(c.selected_peer).last_update, t)
         IN IF res.ok
            THEN [ok |-> TRUE, agents |-> res.agents,
                  free |-> restore_integrity(res.agents, free,
                                             outstanding(res.agents)),
                  ctx |-> [c EXCEPT !.slot_taken = FALSE]]
            ELSE [ok |-> FALSE, agents |-> res.agents, free |-> free, ctx |-> c]
    ELSE [ok |-> TRUE, agents |-> ps, free |-> free, ctx |-> c]

\* ProxyService::release_permit: the pool's release_one_permit, and after its
\* success ctx.slot_taken = false
ProxyService_release_permit(ps, free, c) ==
    IF IsSome(c.selected_peer)
    THEN LET res == pool_release_one_permit(ps, Unwrap(c.selected_peer).agent_id)
         IN [ok |-> res.ok, agents |-> res.agents, free |-> free + res.released,
             ctx |-> IF res.ok THEN [c EXCEPT !.slot_taken = FALSE] ELSE c]
    ELSE [ok |-> TRUE, agents |-> ps, free |-> free, ctx |-> c]

\* the clock after a pool call that may have read it
tick(before, after) == IF after # before THEN now + 1 ELSE now

\* ProxyService::connected_to_upstream
connected_to_upstream(r) ==
    /\ pc[r] = "connect"
    /\ IF ctx[r].uses_slots /\ ~ctx[r].slot_taken
       THEN LET res == ProxyService_take_slot(agents, upstream_slots_permits,
                                              ctx[r], now + 1)
            IN /\ agents' = res.agents
               /\ upstream_slots_permits' = res.free
               /\ ctx' = [ctx EXCEPT ![r] = res.ctx]
               /\ now' = tick(agents, res.agents)
               /\ outcome' = [outcome EXCEPT ![r] =
                                 IF res.ok THEN "Ok" ELSE "InternalError"]
               /\ pc' = [pc EXCEPT ![r] =
                            IF res.ok THEN "streaming" ELSE "proxy_error"]
       ELSE /\ outcome' = [outcome EXCEPT ![r] = "Ok"]
            /\ pc' = [pc EXCEPT ![r] = "streaming"]
            /\ UNCHANGED <<agents, upstream_slots_permits, ctx, now>>
    /\ now' <= MaxClock
    /\ UNCHANGED <<upd, slots_endpoint_enable, permit, tries>>

\* ProxyService::response_body_filter with end_of_stream, lines 216-220: the
\* slot is released
response_body_filter(r) ==
    /\ pc[r] = "streaming"
    /\ IF ctx[r].slot_taken
       THEN LET res == ProxyService_release_slot(agents, upstream_slots_permits,
                                                 ctx[r], now + 1)
            IN /\ agents' = res.agents
               /\ upstream_slots_permits' = res.free
               /\ ctx' = [ctx EXCEPT ![r] = res.ctx]
               /\ now' = tick(agents, res.agents)
               /\ outcome' = [outcome EXCEPT ![r] =
                                 IF res.ok THEN "Ok" ELSE "InternalError"]
               /\ pc' = [pc EXCEPT ![r] =
                            IF res.ok THEN "eos_release_permit" ELSE "proxy_error"]
       ELSE /\ outcome' = [outcome EXCEPT ![r] = "Ok"]
            /\ pc' = [pc EXCEPT ![r] = "done"]
            /\ UNCHANGED <<agents, upstream_slots_permits, ctx, now>>
    /\ now' <= MaxClock
    /\ UNCHANGED <<upd, slots_endpoint_enable, permit, tries>>

\* ProxyService::response_body_filter, lines 221-227: the permit is released
response_body_filter_release_permit(r) ==
    /\ pc[r] = "eos_release_permit"
    /\ LET res == ProxyService_release_permit(agents, upstream_slots_permits,
                                              ctx[r])
       IN /\ agents' = res.agents
          /\ upstream_slots_permits' = res.free
          /\ ctx' = [ctx EXCEPT ![r] = res.ctx]
          /\ outcome' = [outcome EXCEPT ![r] =
                            IF res.ok THEN "Ok" ELSE "InternalError"]
          /\ pc' = [pc EXCEPT ![r] = IF res.ok THEN "done" ELSE "proxy_error"]
    /\ UNCHANGED <<now, upd, slots_endpoint_enable, permit, tries>>

\* how error_while_proxy ends, lines 140-145: the error is marked with
\* decide_reuse(retry); the framework runs the request again (again) only when
\* the mark allows it, the error came from the upstream and attempts are left
error_return(r, origin, will_retry, again) ==
    /\ again => will_retry /\ origin = "UpstreamError" /\ tries[r] < MaxTries
    /\ pc' = [pc EXCEPT ![r] = IF again THEN "upstream_peer" ELSE "done"]
    /\ tries' = [tries EXCEPT ![r] = IF again THEN @ + 1 ELSE @]
    /\ outcome' = [outcome EXCEPT ![r] = origin]

\* ProxyService::error_while_proxy, lines 121-130 and 140-145. It is called for
\* an upstream error while streaming and for the error a callback returned.
error_while_proxy(r, client_reused, retry_buffer_truncated, again) ==
    /\ pc[r] \in {"streaming", "proxy_error"}
    /\ LET will_retry == client_reused /\ ~retry_buffer_truncated
           origin == IF pc[r] = "streaming" THEN "UpstreamError" ELSE outcome[r]
       IN IF ctx[r].slot_taken
          THEN LET res == ProxyService_release_slot(agents,
                              upstream_slots_permits, ctx[r], now + 1)
               IN /\ agents' = res.agents
                  /\ upstream_slots_permits' = res.free
                  /\ ctx' = [ctx EXCEPT ![r] = res.ctx]
                  /\ now' = tick(agents, res.agents)
                  /\ IF ~res.ok
                     THEN /\ ~again
                          /\ outcome' = [outcome EXCEPT ![r] = "InternalError"]
                          /\ pc' = [pc EXCEPT ![r] = "done"]
                          /\ UNCHANGED tries
                     ELSE IF will_retry
                     THEN error_return(r, origin, will_retry, again)
                     ELSE /\ ~again
                          /\ outcome' = [outcome EXCEPT ![r] = origin]
                          /\ pc' = [pc EXCEPT ![r] = "error_release_permit"]
                          /\ UNCHANGED tries
          ELSE /\ error_return(r, origin, will_retry, again)
               /\ UNCHANGED <<agents, upstream_slots_permits, ctx, now>>
    /\ now' <= MaxClock
    /\ UNCHANGED <<upd, slots_endpoint_enable, permit>>

\* ProxyService::error_while_proxy, lines 131-145: no retry, the permit is
\* released
error_while_proxy_release_permit(r) ==
    /\ pc[r] = "error_release_permit"
    /\ LET res == ProxyService_release_permit(agents, upstream_slots_permits,
                                              ctx[r])
       IN /\ agents' = res.agents
          /\ upstream_slots_permits' = res.free
          /\ ctx' = [ctx EXCEPT ![r] = res.ctx]
          /\ IF res.ok
             THEN error_return(r, outcome[r], FALSE, FALSE)
             ELSE /\ outcome' = [outcome EXCEPT ![r] = "InternalError"]
                  /\ pc' = [pc EXCEPT ![r] = "done"]
                  /\ UNCHANGED tries
    /\ UNCHANGED <<now, upd, slots_endpoint_enable, permit>>

\* ProxyService::fail_to_connect
fail_to_connect(r) ==
    /\ pc[r] = "connect"
    /\ IF IsSome(ctx[r].selected_peer)
       THEN LET q == pool_quarantine_peer(agents,
                                          Unwrap(ctx[r].selected_peer).agent_id)
            IN /\ agents' = q.agents
               /\ IF q.quarantined
                  THEN /\ upstream_slots_permits' =
                             restore_integrity(q.agents, upstream_slots_permits,
                                               outstanding(q.agents))
                       /\ ctx' = [ctx EXCEPT ![r].selected_peer = None]
                       /\ outcome' = [outcome EXCEPT ![r] = "Retry"]
                       /\ pc' = [pc EXCEPT ![r] =
                                    IF tries[r] < MaxTries THEN "upstream_peer"
                                    ELSE "done"]
                       /\ tries' = [tries EXCEPT ![r] =
                                       IF @ < MaxTries THEN @ + 1 ELSE @]
                  ELSE /\ outcome' = [outcome EXCEPT ![r] = "ConnectError"]
                       /\ pc' = [pc EXCEPT ![r] = "done"]
                       /\ UNCHANGED <<upstream_slots_permits, ctx, tries>>
       ELSE /\ outcome' = [outcome EXCEPT ![r] = "ConnectError"]
            /\ pc' = [pc EXCEPT ![r] = "done"]
            /\ UNCHANGED <<agents, upstream_slots_permits, ctx, tries>>
    /\ UNCHANGED <<now, upd, slots_endpoint_enable, permit>>

\* ------------------------------------------------------------ specification
RequestStep(r) ==
    \/ \E path \in Paths : request_filter(r, path)
    \/ upstream_peer_acquire(r)
    \/ upstream_peer_select(r)
    \/ upstream_peer_selected(r)
    \/ connected_to_upstream(r)
    \/ response_body_filter(r)
    \/ response_body_filter_release_permit(r)
    \/ \E reused, truncated, again \in BOOLEAN :
          error_while_proxy(r, reused, truncated, again)
    \/ error_while_proxy_release_permit(r)
    \/ fail_to_connect(r)

Next ==
    \/ \E a \in Agents : \E su \in Updates(a) : apply_status_update(a, su)
    \/ \E r \in Requests : RequestStep(r)

Spec == Init /\ [][Next]_vars

\* the same pool and status updates with a single request under way
NextSolo ==
    \/ \E a \in Agents : \E su \in Updates(a) : apply_status_update(a, su)
    \/ RequestStep("r1")

SpecSolo == Init /\ [][NextSolo]_vars

\* ------------------------------------------- specification of the ordering
\* A fleet of three registered workers drawn from the telemetry below, and one
\* request dispatched to it; no further status update arrives. a1 and a2 may
\* share an address; each worker has its own way of being unfit: a1 reports an
\* error, a2 is refused authorization, the authorization of a3 is undetermined.
OrdAddrs(a) == IF a = "a1" THEN {1} ELSE IF a = "a2" THEN {1, 2} ELSE {2}
OrdUpdates(a) ==
    StatusUpdate(IF a = "a1" THEN {None, Some("err")} ELSE {None},
                 OrdAddrs(a),
                 IF a = "a1" THEN {Some(TRUE)}
                 ELSE IF a = "a2" THEN {Some(TRUE), Some(FALSE)}
                 ELSE {Some(TRUE), None},
                 MaxFleetSlots)

InitOrd ==
    /\ \E u1 \in OrdUpdates("a1") : \E u2 \in OrdUpdates("a2") :
       \E u3 \in OrdUpdates("a3") :
          agents = [a \in OrdAgents |->
                       new_from_status_update(a,
                           IF a = "a1" THEN u1 ELSE IF a = "a2" THEN u2 ELSE u3,
                           0)]
    /\ upstream_slots_permits = total_slots(agents)
    /\ now = 0
    /\ slots_endpoint_enable = TRUE
    /\ upd = NoUpdate
    /\ InitRequests

NextOrd == RequestStep("r1")

SpecOrd == InitOrd /\ [][NextOrd]_vars

\* --------------------------------------- specification of a registered fleet
\* One or both workers are registered and authorized, each reporting idle slots
\* and none processing; no status update arrives afterwards. Every request runs
\* its callbacks once, and the scheduler never leaves a request that can take a
\* step waiting forever (tokio's tasks, a connection that answers or fails).
Fleets == {{"a1"}, Agents}

InitFleet ==
    /\ \E fleet \in Fleets :
          \E reports \in [fleet -> UNION {Updates(a) : a \in Agents}] :
             /\ \A a \in fleet :
                   /\ reports[a] \in Updates(a)
                   /\ reports[a].is_authorized = Some(TRUE)
                   /\ reports[a].idle_slots_count > 0
                   /\ reports[a].processing_slots_count = 0
             /\ agents = [a \in fleet |-> new_from_status_update(a, reports[a], 0)]
    /\ upstream_slots_permits = total_slots(agents)
    /\ now = 0
    /\ slots_endpoint_enable = TRUE
    /\ upd = NoUpdate
    /\ InitRequests

NextFleet == \E r \in Requests : RequestStep(r)

SpecFleet ==
    InitFleet /\ [][NextFleet]_vars /\ \A r \in Requests : WF_vars(RequestStep(r))

\* ------------------------------------- specification of updates in flight
\* One authorized worker registered with MaxFleetSlots idle slots and as many
\* free permits; two requests run their callbacks once while the worker keeps
\* reporting how many of its MaxFleetSlots slots are processing (authorized,
\* without error).
InFlightUpdates ==
    {su \in StatusUpdate({None}, {AddrOf("a1")}, {Some(TRUE)}, MaxFleetSlots) :
        su.idle_slots_count + su.processing_slots_count = MaxFleetSlots}

InitInFlight ==
    /\ \E su \in InFlightUpdates :
          /\ su.processing_slots_count = 0
          /\ agents = [a \in {"a1"} |-> new_from_status_update(a, su, 0)]
    /\ upstream_slots_permits = total_slots(agents)
    /\ now = 0
    /\ slots_endpoint_enable = TRUE
    /\ upd = NoUpdate
    /\ InitRequests

NextInFlight ==
    \/ \E su \in InFlightUpdates : apply_status_update("a1", su)
    \/ \E r \in Requests : RequestStep(r)

SpecInFlight == InitInFlight /\ [][NextInFlight]_vars

\* ------------------------------ specification of updates that keep arriving
\* UpstreamPeerPool::apply_status_update once the clock has reached MaxClock:
\* the update is stamped with a time later than every time read before, and
\* all such times are kept as the one value MaxClock + 1 (no request reads the
\* clock any more, see the guards on now').
apply_status_update_late(agent_id, su) ==
    /\ now = MaxClock
    /\ LET reg == register_status_update(agents, agent_id, su, MaxClock + 1)
       IN /\ agents' = reg.agents
          /\ upd' = [lowered |-> reg.lowered, released |-> reg.released,
                     panicked |-> reg.panicked]
          /\ upstream_slots_permits' =
                IF reg.panicked THEN upstream_slots_permits
                ELSE restore_integrity(reg.agents,
                                       upstream_slots_permits + reg.released,
                                       outstanding(reg.agents))
    /\ UNCHANGED <<now, slots_endpoint_enable, reqVars>>

\* the status updates of this specification: the workers stay authorized
ReclaimUpdates(a) == {su \in Updates(a) : su.is_authorized = Some(TRUE)}

\* a status update of the worker arrives, the request having ended
StatusUpdateArrives(a) ==
    /\ pc["r1"] = "done"
    /\ \E su \in ReclaimUpdates(a) :
          apply_status_update(a, su) \/ apply_status_update_late(a, su)

\* both workers are registered, each with idle slots and none processing
InitReclaim ==
    /\ \E reports \in [Agents -> UNION {ReclaimUpdates(a) : a \in Agents}] :
          /\ \A a \in Agents :
                /\ reports[a] \in ReclaimUpdates(a)
                /\ reports[a].idle_slots_count > 0
                /\ reports[a].processing_slots_count = 0
          /\ agents = [a \in Agents |-> new_from_status_update(a, reports[a], 0)]
    /\ upstream_slots_permits = total_slots(agents)
    /\ now = 0
    /\ slots_endpoint_enable = TRUE
    /\ upd = NoUpdate
    /\ InitRequests

NextReclaim ==
    \/ StatusUpdateArrives("a1")
    \/ RequestStep("r1")

\* One request runs its callbacks; once it has ended, worker a1 reports and
\* never stops reporting (the other worker stays silent), and the request is
\* never left waiting forever when it can take a step.
SpecReclaim ==
    /\ InitReclaim /\ [][NextReclaim]_vars
    /\ WF_vars(StatusUpdateArrives("a1"))
    /\ WF_vars(RequestStep("r1"))

\* ================================================================== claims
\* slots_idle and slots_processing of every peer
Counters ==
    [a \in DOMAIN agents |-> <<agents[a].slots_idle, agents[a].slots_processing>>]

\* no request holds a permit between its acquisition and its storage, and the
\* last status update ran to its end (a pool operation is one step, so none is
\* ever in progress in a state)
Quiescent == ~upd.panicked /\ \A r \in Requests : IsNone(permit[r])

\* every request that has been classified is a slot-using one
AllSlotUsing == \A r \in Requests : pc[r] # "new" => ctx[r].uses_slots

\* the request is past its permit acquisition and has not finished
PastAcquisition(r) ==
    \/ pc[r] \in {"use_best_peer", "connect", "streaming", "proxy_error",
                  "eos_release_permit", "error_release_permit"}
    \/ pc[r] = "upstream_peer" /\ IsSome(ctx[r].selected_peer)

\* the request ran upstream_peer, connected_to_upstream and response_body_filter
\* with end_of_stream once each and met no error
RoundTripDone(r) ==
    /\ pc[r] = "done"
    /\ outcome[r] = "Ok"
    /\ ctx[r].uses_slots
    /\ IsSome(ctx[r].selected_peer)
    /\ tries[r] = 1

\* C1: in every quiescent state the free permits of the semaphore plus the
\* permits held in the custody of the peers equal the sum of slots_idle +
\* slots_processing over the authorized peers.
C1_IntegrityAtRest ==
    Quiescent =>
        upstream_slots_permits + permits_in_custody(agents) = total_slots(agents)

\* C2: a step of a request classified with uses_slots = false never leaves the
\* request with an admission permit acquired and never changes the slots_idle
\* or slots_processing of a peer.
C2_NonSlotRequestTouchesNothing ==
    [][\A r \in Requests :
          (pc[r] # "new" /\ pc'[r] # pc[r] /\ ~ctx[r].uses_slots)
             => /\ IsNone(permit'[r])
                /\ upstream_slots_permits' >= upstream_slots_permits
                /\ Counters' = Counters]_vars

\* C3: with slot-using requests only and no status update after registration,
\* whenever a request on its first attempt, with its permit stored in the
\* selected peer, runs connected_to_upstream, take_slot on that peer succeeds.
C3_TakeSlotSucceeds ==
    [][\A r \in Requests :
          (/\ AllSlotUsing
           /\ pc[r] = "connect" /\ pc'[r] \in {"streaming", "proxy_error"}
           /\ tries[r] = 1
           /\ ~ctx[r].slot_taken)
             => pc'[r] = "streaming" /\ ctx'[r].slot_taken]_vars

\* the fleet is one authorized peer of one slot
OnePeerOneSlot ==
    /\ DOMAIN agents = {"a1"}
    /\ agents["a1"].is_authorized = Some(TRUE)
    /\ slots_count(agents["a1"]) = Cardinality({"a1"})

\* C4, its safety half: with one authorized peer of one slot and slot-using
\* requests, at most one request is past permit acquisition at any time.
C4_AtMostOnePastAcquisition ==
    (OnePeerOneSlot /\ AllSlotUsing)
        => Cardinality({r \in Requests : PastAcquisition(r)}) <= 1

\* the first request has reached end-of-stream and released, the second is on
\* its first attempt and waits for a permit
C4_FirstDoneSecondWaits(first, second) ==
    /\ OnePeerOneSlot
    /\ RoundTripDone(first)
    /\ ctx[second].uses_slots
    /\ pc[second] = "upstream_peer"
    /\ tries[second] = 1
    /\ IsNone(ctx[second].selected_peer)

\* the request has a permit stored in peer a1 and is sent to it
C4_Dispatched(r) ==
    /\ pc[r] = "connect"
    /\ IsSome(ctx[r].selected_peer)
    /\ Unwrap(ctx[r].selected_peer).agent_id = "a1"

\* C4: saturation backpressure. With one authorized peer of one slot and two
\* slot-using requests at most one request is past permit acquisition at any
\* time, and once the first has reached end-of-stream the second, blocked in
\* acquire until then, eventually gets a permit and is dispatched to the same
\* peer (under fair scheduling).
C4_SaturationBackpressure ==
    /\ []C4_AtMostOnePastAcquisition
    /\ \A first, second \in Requests :
          first # second =>
             (C4_FirstDoneSecondWaits(first, second) ~> C4_Dispatched(second))

\* C5: slot round trip. In a fleet registered with no slot processing and as
\* many free permits as slots, after a single slot-using request has run
\* upstream_peer, connected_to_upstream and response_body_filter with
\* end_of_stream (no other request started, no status update), every peer has
\* its slots_idle and slots_processing back (none processing, all idle) and
\* the semaphore has its free permits back.
C5_SlotRoundTrip ==
    \A r \in Requests :
        (RoundTripDone(r) /\ \A q \in Requests \ {r} : pc[q] = "new")
           => /\ \A a \in DOMAIN agents :
                    /\ agents[a].slots_processing = 0
                    /\ agents[a].slots_idle = slots_count(agents[a])
              /\ upstream_slots_permits = total_slots(agents)

\* the request is about to call release_slot (response_body_filter with
\* end_of_stream or error_while_proxy, the slot taken) and the last_update it
\* carries differs from the one its peer has now
StaleRelease(r) ==
    /\ pc[r] \in {"streaming", "proxy_error"}
    /\ ctx[r].slot_taken
    /\ IsSome(ctx[r].selected_peer)
    /\ Unwrap(ctx[r].selected_peer).agent_id \in DOMAIN agents
    /\ agents[Unwrap(ctx[r].selected_peer).agent_id].last_update
          # Unwrap(ctx[r].selected_peer).last_update

C7_LoweringReturnsPermits ==
    upd.lowered > 0 => (~upd.panicked /\ upd.released = upd.lowered)

\* requests that have released their slot on peer a and not yet their permit
InFlightReleases(a) ==
    Cardinality({r \in Requests :
                    /\ pc[r] \in {"eos_release_permit", "error_release_permit"}
                    /\ IsSome(ctx[r].selected_peer)
                    /\ Unwrap(ctx[r].selected_peer).agent_id = a})

\* C8: for every peer the permits in its custody are as many as its
\* slots_processing minus the releases in flight against it.
C8_CustodyMatchesProcessing ==
    \A a \in DOMAIN agents :
        custody(agents[a]) = agents[a].slots_processing - InFlightReleases(a)

\* usable as section 3 words it
UsableByDefinition(p) ==
    /\ p.slots_idle > 0
    /\ p.quarantined_until = None
    /\ p.error = None
    /\ p.is_authorized = Some(TRUE)

\* C9: use_best_peer never returns a peer that is not usable (no idle slot,
\* quarantined, in error or not authorized), it returns none when no peer is
\* usable and a usable peer when there is one, so a request is dispatched to a
\* usable peer even when a quarantined one has more idle slots.
C9_BestPeerIsUsable ==
    LET usable == {a \in DOMAIN agents : UsableByDefinition(agents[a])}
    IN \A best \in use_best_peer(agents) :
          /\ IsSome(best) <=> usable # {}
          /\ IsSome(best) => Unwrap(best).agent_id \in usable

\* a request has been dispatched to a usable peer while a quarantined peer,
\* fit in every other way, has more idle slots
C9_QuarantinedPeerPassedOver ==
    \E r \in Requests : \E a, b \in DOMAIN agents :
        /\ pc[r] = "connect"
        /\ Unwrap(ctx[r].selected_peer).agent_id = b
        /\ UsableByDefinition(agents[b])
        /\ IsSome(agents[a].quarantined_until)
        /\ IsNone(agents[a].error)
        /\ agents[a].is_authorized = Some(TRUE)
        /\ agents[a].slots_idle > agents[b].slots_idle

\* the four keys of section 3, smaller first
RankKey(p) ==
    <<IF UsableByDefinition(p) THEN 0 ELSE 1, 0 - p.slots_idle,
      p.slots_processing, p.external_llamacpp_addr>>

\* the lexicographic order of two key tuples
Lexicographic(k, l) ==
    IF \E i \in 1..Len(k) : k[i] < l[i] /\ \A j \in 1..(i - 1) : k[j] = l[j]
    THEN "Less"
    ELSE IF k = l THEN "Equal" ELSE "Greater"

Reverse(o) == IF o = "Less" THEN "Greater" ELSE IF o = "Greater" THEN "Less" ELSE o

\* C10: cmp is the lexicographic order on (usable first, larger slots_idle
\* first, smaller slots_processing first, address ascending); over the peers of
\* the pool it is antisymmetric and transitive, and the top-ranked peers tie on
\* all four keys.
C10_CmpIsLexicographicTotalOrder ==
    LET P == {agents[a] : a \in DOMAIN agents}
        top == {p \in P : \A q \in P : cmp(p, q) # "Greater"}
    IN /\ \A p, q \in P :
             /\ cmp(p, q) = Lexicographic(RankKey(p), RankKey(q))
             /\ cmp(p, q) = Reverse(cmp(q, p))
       /\ \A p, q, w \in P :
             /\ (cmp(p, q) # "Greater" /\ cmp(q, w) # "Greater")
                   => cmp(p, w) # "Greater"
             /\ (cmp(p, q) = "Less" /\ cmp(q, w) # "Greater")
                   => cmp(p, w) = "Less"
       /\ top # {}
       /\ \A p, q \in top : RankKey(p) = RankKey(q)

\* a request has been dispatched by the ordering while three peers of the pool
\* are ranked strictly one after the other, the first two apart by slots_idle
\* alone
C10_StrictChainRanked ==
    /\ \E r \in Requests : pc[r] = "connect"
    /\ \E a, b, c \in DOMAIN agents :
          /\ cmp(agents[a], agents[b]) = "Less"
          /\ cmp(agents[b], agents[c]) = "Less"
          /\ is_usable(agents[a]) /\ is_usable(agents[b])
          /\ agents[a].slots_idle > agents[b].slots_idle

\* the peer the request has selected
SelectedAgent(r) == Unwrap(ctx[r].selected_peer).agent_id

\* C11: after every fail_to_connect of a request that has a selected peer, also
\* when another request's failure has quarantined that peer before, the peer
\* is quarantined, ctx.selected_peer is cleared and the returned error asks for
\* a retry.
C11_ConnectFailureQuarantinesAndRetries ==
    [][\A r \in Requests :
          (/\ AllSlotUsing
           /\ pc[r] = "connect" /\ pc'[r] \in {"upstream_peer", "done"}
           /\ IsSome(ctx[r].selected_peer)
           /\ SelectedAgent(r) \in DOMAIN agents)
             => /\ IsSome(agents'[SelectedAgent(r)].quarantined_until)
                /\ IsNone(ctx'[r].selected_peer)
                /\ outcome'[r] = "Retry"]_vars

\* C12: error_while_proxy of a slot-using request whose permit is stored in its
\* peer leaves the request without a slot taken; when the retry is viable
\* (client_reused and the retry buffer not truncated) the custody of the peer
\* keeps the permit, and when it is not the permit leaves the custody before
\* the callback returns.
C12_PermitRetainedIffRetrying ==
    [][\A r \in Requests :
          (/\ ctx[r].uses_slots
           /\ IsSome(ctx[r].selected_peer)
           /\ SelectedAgent(r) \in DOMAIN agents)
             => LET before == custody(agents[SelectedAgent(r)])
                    after == custody(agents'[SelectedAgent(r)])
                IN /\ \A reused, truncated, again \in BOOLEAN :
                         error_while_proxy(r, reused, truncated, again)
                            => /\ ~ctx'[r].slot_taken
                               /\ (reused /\ ~truncated) => after = before
                               /\ ~(reused /\ ~truncated)
                                     => \/ pc'[r] = "error_release_permit"
                                        \/ after = before - 1
                   /\ error_while_proxy_release_permit(r)
                         => after = before - 1]_vars

\* no request is under way, and no take_slot has run (every take_slot reads
\* the clock, which still shows the time 0 the fleet registered at)
AllEndedBeforeTakeSlot ==
    /\ \A r \in Requests : pc[r] \in {"new", "done"}
    /\ now = 0

\* C13: when every request that acquired a permit and stored it in a peer has
\* ended before take_slot ran, no permit is left in the custody of a peer.
C13_EndedRequestLeavesNoPermit ==
    (AllSlotUsing /\ AllEndedBeforeTakeSlot) => permits_in_custody(agents) = 0

\* the request ended on the internal error a failed take_slot or release_slot
\* made its callback return, its permit stored in the peer it still names
EndedOnPoolError(r) ==
    /\ pc[r] = "done"
    /\ outcome[r] = "InternalError"
    /\ ctx[r].uses_slots
    /\ IsSome(ctx[r].selected_peer)

\* C14: when a take_slot or release_slot of the pool fails inside a callback of
\* the only request under way, the request ends with an internal error and its
\* permit is no longer in the custody of a peer.
C14_PoolErrorReturnsPermit ==
    \A r \in Requests :
        (EndedOnPoolError(r) /\ \A q \in Requests \ {r} : pc[q] = "new")
           => permits_in_custody(agents) = 0

\* the last status update lowered slots_processing and released as many
\* permits from the custody, and the request is at its end-of-stream release
\* of the permit
ReleasesAfterLowering(r) ==
    /\ upd.lowered > 0 /\ upd.released = upd.lowered
    /\ pc[r] = "eos_release_permit" /\ pc'[r] # pc[r]
    /\ SelectedAgent(r) \in DOMAIN agents

C16_OnePermitPerRequest ==
    \A r \in Requests :
        (ctx[r].uses_slots /\ \A q \in Requests \ {r} : pc[q] = "new")
           => /\ permits_in_custody(agents) + permits_in_hand(permit) <= 1
              /\ pc[r] = "connect"
                    => \A a \in DOMAIN agents :
                          custody(agents[a])
                             = IF a = SelectedAgent(r) THEN 1 ELSE 0

\* the request has ended on a connect failure and a permit it acquired is in
\* the custody of peer a1, to which a connection failed
C17_PermitLeftAfterConnectFailure ==
    /\ pc["r1"] = "done"
    /\ ctx["r1"].uses_slots
    /\ outcome["r1"] = "Retry"
    /\ agents["a1"].quarantined_until # None
    /\ custody(agents["a1"]) > 0

\* C17: once a request has ended on a connect failure, the permit left in the
\* custody of the failed peer eventually goes back to the semaphore, given
\* that the status updates of the peer keep arriving (a run in which a status
\* update aborts on an empty custody is not held against the property).
C17_LeftPermitEventuallyReturned ==
    C17_PermitLeftAfterConnectFailure ~> (custody(agents["a1"]) = 0 \/ upd.panicked)

\* the update su of peer a lowers its slots_processing by K while the custody
\* of the peer holds fewer than K permits, or no bundle at all
CustodyShort(a, su) ==
    /\ a \in DOMAIN agents
    /\ su.processing_slots_count < agents[a].slots_processing
    /\ \/ IsNone(agents[a].slots_permissions)
       \/ custody(agents[a]) < agents[a].slots_processing - su.processing_slots_count

\* C18: a status update that lowers slots_processing by K while the custody
\* holds fewer than K permits is reported as a pool-integrity error: it does
\* not abort on the missing bundle and does not pass with fewer than K permits
\* released (update_status has no error to return, so an update that is short
\* of custody has no other way to end).
C18_ShortCustodyIsAnIntegrityError ==
    [][\A a \in Agents : \A su \in Updates(a) :
          (CustodyShort(a, su) /\ apply_status_update(a, su))
             => /\ ~upd'.panicked
                /\ upd'.released >= upd'.lowered]_vars

\* free permit counts a semaphore of this fleet can show
FreeCounts == 0 .. MaxFleetSlots

\* C19: restore_integrity is idempotent. In every pool the program reaches,
\* with the permits its custodies and acquirers hold, and from every count of
\* free permits, a second invocation right after the first leaves the free
\* permits and the total (free plus outstanding) as the first left them.
C19_RestoreIntegrityIdempotent ==
    LET held == outstanding(agents)
        target == total_slots(agents)
    IN \A available \in FreeCounts \cup {upstream_slots_permits} :
          LET once == restore_integrity(agents, available, held)
              twice == restore_integrity(agents, once, held)
          IN /\ twice = once
             /\ twice + held = once + held
             /\ once + held # target => (once = 0 /\ once + held > target)

\* permits are held by a custody and the semaphore is out of step with the
\* fleet, so that the first invocation adds permits
C19_FirstInvocationAdds ==
    /\ outstanding(agents) > 0
    /\ restore_integrity(agents, upstream_slots_permits, outstanding(agents)) > upstream_slots_permits

\* permits are held and the first invocation drains free permits
C19_FirstInvocationDrains ==
    /\ outstanding(agents) > 0
    /\ restore_integrity(agents, upstream_slots_permits, outstanding(agents)) < upstream_slots_permits

\* this step makes a pool take_slot call for request r, and the call succeeds
TakeSlotSucceeds(r) ==
    /\ pc[r] = "connect" /\ pc'[r] # pc[r]
    /\ ctx[r].uses_slots /\ ~ctx[r].slot_taken
    /\ IsSome(ctx[r].selected_peer)
    /\ pool_take_slot(agents, SelectedAgent(r), now + 1).ok
    /\ connected_to_upstream(r)

\* this step makes a pool release_slot call for request r
ReleaseSlotCalled(r) ==
    /\ ctx[r].slot_taken
    /\ IsSome(ctx[r].selected_peer)
    /\ pc[r] \in {"streaming", "proxy_error"} /\ pc'[r] # pc[r]
    /\ \/ response_body_filter(r)
       \/ \E reused, truncated, again \in BOOLEAN :
             error_while_proxy(r, reused, truncated, again)

=============================================================================
